---------------------------- MODULE Spec2Model ----------------------------
(***************************************************************************)
(* Model of the Bluedata downloads endpoint (src/app.py): a Flask          *)
(* application whose two listing handlers, list_daily and list_by_prefix,  *)
(* enumerate the objects of a storage bucket under a prefix, filter them,  *)
(* attach a signed URL to each, sort them and return at most `limit` of    *)
(* them as JSON.                                                           *)
(*                                                                         *)
(* Python strings are modelled as sequences of one-character strings, so   *)
(* that endswith, split, strip, `in`, int() and string comparison are      *)
(* computed character by character.  An optional value (None or a value)   *)
(* is the empty sequence or a one-element sequence.                        *)
(***************************************************************************)
EXTENDS Integers, Sequences, FiniteSets, TLC

VARIABLES
    BUCKET,     \* the GCS_BUCKET setting read at start-up (app.py:13)
    store,      \* the objects of the bucket, as the provider holds them
    req,        \* the request being answered: [route, args]
    resp,       \* the response of the handler (NoResp while idle)
    utcnow,     \* what datetime.datetime.utcnow() returns
    calls       \* the provider calls made while answering req, in order

vars == <<BUCKET, store, utcnow, req, resp, calls>>

----------------------------------------------------------------------------
(* Bounds of the model *)

\* At most this many objects are stored in the bucket.
MaxObjects == 3

\* The objects' update times are the first MaxTime half-seconds from
\* 01:00:00 of one day.
MaxTime == 2

----------------------------------------------------------------------------
(* Characters and strings *)

\* The characters of the model in code point order (Python compares
\* strings by code point).
CharOrder ==
    << " ", "+", "-", ".", "/",
       "0", "1", "2", "3", "4", "5", "6", "7", "8", "9", ":",
       "T", "_",
       "a", "b", "c", "d", "e", "f", "g", "h", "i", "j", "k", "l", "m",
       "n", "o", "p", "q", "r", "s", "t", "u", "v", "w", "x", "y", "z" >>

Ord(c) == CHOOSE i \in 1..Len(CharOrder) : CharOrder[i] = c

Min(S) == CHOOSE m \in S : \A k \in S : m <= k

\* a < b for Python strings
StrLess(a, b) ==
    LET n    == IF Len(a) <= Len(b) THEN Len(a) ELSE Len(b)
        diff == {i \in 1..n : a[i] # b[i]}
    IN  IF diff = {}
        THEN Len(a) < Len(b)
        ELSE Ord(a[Min(diff)]) < Ord(b[Min(diff)])

StrLeq(a, b) == a = b \/ StrLess(a, b)

\* s.endswith(suffix)
EndsWith(s, suffix) ==
    /\ Len(suffix) <= Len(s)
    /\ SubSeq(s, Len(s) - Len(suffix) + 1, Len(s)) = suffix

\* s.startswith(prefix)
StartsWith(s, prefix) ==
    /\ Len(prefix) <= Len(s)
    /\ SubSeq(s, 1, Len(prefix)) = prefix

\* sub in s
Contains(sub, s) ==
    \E i \in 1..(Len(s) - Len(sub) + 1) : SubSeq(s, i, i + Len(sub) - 1) = sub

IsSpace(c) == c = " "

\* s.strip()
Strip(s) ==
    LET keep == {i \in 1..Len(s) : ~IsSpace(s[i])}
    IN  IF keep = {}
        THEN << >>
        ELSE SubSeq(s, Min(keep), CHOOSE m \in keep : \A k \in keep : k <= m)

\* s.split("/")[-1]
SplitLast(s) ==
    LET slashes == {i \in 1..Len(s) : s[i] = "/"}
    IN  IF slashes = {}
        THEN s
        ELSE SubSeq(s, (CHOOSE m \in slashes : \A k \in slashes : k <= m) + 1,
                    Len(s))

Digits == <<"0", "1", "2", "3", "4", "5", "6", "7", "8", "9">>

IsDigit(c) == \E d \in 1..10 : Digits[d] = c

DigitVal(c) == (CHOOSE d \in 1..10 : Digits[d] = c) - 1

RECURSIVE DigitsVal(_)
DigitsVal(ds) ==
    IF ds = << >> THEN 0
    ELSE 10 * DigitsVal(SubSeq(ds, 1, Len(ds) - 1)) + DigitVal(ds[Len(ds)])

\* int(s): [ok |-> TRUE, val |-> n], or ok = FALSE where Python raises
\* ValueError.  Surrounding whitespace and one leading sign are accepted.
IntParse(s) ==
    LET t      == Strip(s)
        signed == t # << >> /\ t[1] \in {"-", "+"}
        ds     == IF signed THEN Tail(t) ELSE t
    IN  IF ds # << >> /\ \A i \in 1..Len(ds) : IsDigit(ds[i])
        THEN [ok  |-> TRUE,
              val |-> IF signed /\ t[1] = "-" THEN 0 - DigitsVal(ds)
                      ELSE DigitsVal(ds)]
        ELSE [ok |-> FALSE, val |-> 0]

\* n as two decimal digits (the %m, %d and hour fields)
Pad2(n) == <<Digits[(n \div 10) + 1], Digits[(n % 10) + 1]>>

\* n as four decimal digits (the %Y field)
Pad4(n) == Pad2(n \div 100) \o Pad2(n % 100)

\* Slice with the bound off by one: xs[:limit + 1].
SliceOneMore(xs, limit) ==
    IF limit + 1 >= 0
    THEN SubSeq(xs, 1, IF limit + 1 <= Len(xs) THEN limit + 1 ELSE Len(xs))
    ELSE SubSeq(xs, 1, Len(xs) + limit + 1)

\* n as six decimal digits (the microseconds of isoformat)
Pad6(n) == Pad2(n \div 10000) \o Pad4(n % 10000)

\* xs[:limit]
Slice(xs, limit) ==
    IF limit >= 0
    THEN SubSeq(xs, 1, IF limit <= Len(xs) THEN limit ELSE Len(xs))
    ELSE SubSeq(xs, 1, Len(xs) + limit)

\* list.sort: a stable sort of xs, where less[i][j] says that the key of
\* xs[i] is smaller than the key of xs[j]; elements with equal keys keep
\* their order
StableSort(xs, less) ==
    LET n       == Len(xs)
        rank(i) == Cardinality({j \in 1..n :
                        \/ less[j][i]
                        \/ (~less[i][j] /\ j < i)}) + 1
    IN  [p \in 1..n |-> xs[CHOOSE i \in 1..n : rank(i) = p]]

----------------------------------------------------------------------------
(* Program constants *)

\* URL_EXPIRY_HOURS, by default
EXP_HOURS == 24

\* request.args.get("prefix", "daily/")
DefaultDailyPrefix == <<"d", "a", "i", "l", "y", "/">>

\* request.args.get("prefix", "csv/")
DefaultCsvPrefix == <<"c", "s", "v", "/">>

\* request.args.get("limit", "100")
DefaultLimit == <<"1", "0", "0">>

\* the values of `latest` that ask for the newest object only
LatestValues == { <<"1">>, <<"t", "r", "u", "e">>, <<"y", "e", "s">> }

\* the error message of an unconfigured bucket
BucketError ==
    <<"g", "c", "s", "_", "b", "u", "c", "k", "e", "t", " ",
      "n", "o", "t", " ", "c", "o", "n", "f", "i", "g", "u", "r", "e", "d">>

\* the routes the application registers with @app.get
Routes == {"/health", "/", "/list_daily", "/list_by_prefix"}

----------------------------------------------------------------------------
(* Dates and times *)

\* datetime.strftime("%Y-%m-%d")
Strftime(d) == Pad4(d.year) \o <<"-">> \o Pad2(d.month) \o <<"-">> \o Pad2(d.day)

\* datetime.isoformat() of a UTC time: the microseconds are written only
\* when they are not 0
IsoFormat(t) ==
    Strftime(t) \o <<"T">> \o Pad2(t.hour) \o <<":">> \o Pad2(t.minute)
        \o <<":">> \o Pad2(t.second)
        \o (IF t.microsecond = 0 THEN << >> ELSE <<".">> \o Pad6(t.microsecond))
        \o <<"+", "0", "0", ":", "0", "0">>

\* The k-th update time of the model: 01:00:00, 01:00:00.500000, 01:00:01, ...
TimeAt(k) ==
    [year |-> 2025, month |-> 8, day |-> 9, hour |-> 1, minute |-> 0,
     second |-> (k - 1) \div 2, microsecond |-> ((k - 1) % 2) * 500000]

\* The values datetime.datetime.utcnow() takes in the model.
Clock == { [year |-> 2025, month |-> 8, day |-> 27] }

\* The update times of the stored objects.
Times == { TimeAt(k) : k \in 1..MaxTime }

----------------------------------------------------------------------------
(* The bucket *)

CsvExt == <<".", "c", "s", "v">>

DailyFolder == DefaultDailyPrefix \o <<"2", "0", "2", "5", "-", "0", "8", "-", "2", "7", "/">>

CsvStem == DefaultCsvPrefix \o <<"2", "0", "2", "5", "-", "0", "8", "-", "0", "9", "_">>

\* The object keys of the model: a directory marker and three files of one
\* daily folder (two with the same base name), and two hourly csv files.
DailyKeys ==
    { DailyFolder,
      DailyFolder \o <<"a">> \o CsvExt,
      DailyFolder \o <<"b">> \o CsvExt,
      DailyFolder \o <<"x", "/", "a">> \o CsvExt }

CsvKeys ==
    { CsvStem \o <<"0", "0">> \o CsvExt,
      CsvStem \o <<"0", "8">> \o CsvExt }

Keys == DailyKeys \cup CsvKeys

\* The metadata an object of the model may carry: a csv file and the file
\* of the daily sub-folder have any update time or none; the other objects
\* have the first one.  A directory marker has size 0, the b file has no
\* size, the others have a size.
UpdatedOf(k) ==
    IF (k \in CsvKeys \/ Contains(<<"/", "x", "/">>, k)) /\ ~EndsWith(k, <<"/">>)
    THEN { << >> } \cup { <<t>> : t \in Times }
    ELSE { <<TimeAt(1)>> }

SizeOf(k) ==
    IF EndsWith(k, <<"/">>) THEN <<0>>
    ELSE IF EndsWith(k, <<"b">> \o CsvExt) THEN << >>
    ELSE <<Len(k)>>

\* The states of the bucket: at most MaxObjects objects with distinct keys.
Stores ==
    UNION { { { [name |-> k, size |-> SizeOf(k), updated |-> u[k]] : k \in ks } :
              u \in { v \in [ks -> UNION { UpdatedOf(k) : k \in ks }] :
                        \A k \in ks : v[k] \in UpdatedOf(k) } }
            : ks \in { x \in SUBSET Keys : Cardinality(x) <= MaxObjects } }

\* The orders in which the provider may yield the objects of a set.
RECURSIVE Orders(_)
Orders(S) ==
    IF S = {}
    THEN { << >> }
    ELSE UNION { { <<b>> \o rest : rest \in Orders(S \ {b}) } : b \in S }

\* client.list_blobs(BUCKET, prefix=prefix): the stored objects whose name
\* starts with the prefix
ListBlobs(prefix) == { b \in store : StartsWith(b.name, prefix) }

\* signed_url(blob_name): the provider's URL for the object, valid for
\* EXP_HOURS hours
SignedUrl(blob_name) == [blob |-> blob_name, method |-> "GET", hours |-> EXP_HOURS]

----------------------------------------------------------------------------
(* Requests and responses *)

Str(s) == <<s>>

Absent == << >>

\* request.args.get(k, default)
Get(args, k, default) == IF args[k] = Absent THEN default ELSE args[k][1]

NoReq == [route |-> "", args |-> << >>]

NoResp == [status |-> 0, kind |-> "none", exc |-> "", body |-> << >>]

\* jsonify(body), status
Json(status, body) == [status |-> status, kind |-> "json", exc |-> "", body |-> body]

\* An exception that leaves the handler: Flask answers 500 with its own
\* error page, which is not the application's JSON.
Unhandled(exc) == [status |-> 500, kind |-> "fault", exc |-> exc, body |-> << >>]

\* A provider call as the log of the request records it; ok is FALSE when
\* the call raised.
ListCall(prefix, ok) == [op |-> "list", arg |-> prefix, ok |-> ok]

SignCall(blob_name, ok) == [op |-> "sign", arg |-> blob_name, ok |-> ok]

----------------------------------------------------------------------------
(* The query strings the model sends *)

DateArgs == { Absent, Str(<<"x">>) }

DailyPrefixArgs == { Absent, Str(<<"d", "a", "i", "l", "y">>) }

PrefixArgs == { Absent, Str(CsvStem), Str(DefaultDailyPrefix) }

ContainsArgs == { Absent, Str(<<"a", ".">>), Str(<<" ", "0", "8", ".">>), Str(<<" ">>) }

LimitArgs ==
    { Absent, Str(<<"0">>), Str(<<"2">>), Str(<<"-", "1">>), Str(<<"x">>) }

LatestArgs == { Absent, Str(<<"1">>), Str(<<" ", "y", "e", "s">>), Str(<<"n", "o">>) }

DailyArgs ==
    { [date |-> d, prefix |-> p, contains |-> c, limit |-> l, latest |-> Absent] :
        d \in DateArgs, p \in DailyPrefixArgs, c \in ContainsArgs, l \in LimitArgs }

ByPrefixArgs ==
    { [date |-> Absent, prefix |-> p, contains |-> c, limit |-> l, latest |-> t] :
        p \in PrefixArgs, c \in ContainsArgs, l \in LimitArgs, t \in LatestArgs }

----------------------------------------------------------------------------
(* The steps of the listing handlers *)

\* BucketConfigured without the check: the handler goes on with no bucket.
BucketConfiguredAlways == TRUE

\* `if not BUCKET` is false
BucketConfigured == BUCKET # << >>

\* if prefix and not prefix.endswith("/"): prefix = prefix + "/"
NormalisePrefix(prefix) ==
    IF prefix # << >> /\ ~EndsWith(prefix, <<"/">>) THEN prefix \o <<"/">> ELSE prefix

\* request.args.get("date") or utcnow().strftime("%Y-%m-%d")
DateStr(args, now) ==
    IF Get(args, "date", << >>) = << >> THEN Strftime(now) ELSE args.date[1]

\* f"{prefix}{date_str}/"
Folder(args, now) ==
    NormalisePrefix(Get(args, "prefix", DefaultDailyPrefix)) \o DateStr(args, now) \o <<"/">>

\* request.args.get("contains", "").strip()
ContainsOf(args) == Strip(Get(args, "contains", << >>))

\* int(request.args.get("limit", "100"))
LimitOf(args) == IntParse(Get(args, "limit", DefaultLimit))

\* request.args.get("latest", "").strip() in ("1", "true", "yes")
LatestOnly(args) == Strip(Get(args, "latest", << >>)) \in LatestValues

\* IsDirMarker without the test: no object is skipped as a directory marker.
IsDirMarkerNever(b) == FALSE

\* b.name.endswith("/")
IsDirMarker(b) == EndsWith(b.name, <<"/">>)

\* b.name.split("/")[-1]
BaseName(b) == SplitLast(b.name)

\* Kept without the contains test.
KeptAnyName(b, contains) == ~EndsWith(b.name, <<"/">>)

\* the loop's two `continue` tests are both false for b
Kept(b, contains) ==
    /\ ~IsDirMarker(b)
    /\ ~(contains # << >> /\ ~Contains(contains, BaseName(b)))

\* b.size or 0
SizeBytes(b) == IF b.size = << >> THEN 0 ELSE b.size[1]

\* the entry list_daily appends for b
DailyEntry(b) ==
    [name       |-> BaseName(b),
     path       |-> b.name,
     size_bytes |-> SizeBytes(b),
     signed_url |-> SignedUrl(b.name)]

\* the entry list_by_prefix appends for b
PrefixEntry(b) ==
    [name       |-> BaseName(b),
     path       |-> b.name,
     size_bytes |-> SizeBytes(b),
     signed_url |-> SignedUrl(b.name),
     updated    |-> IF b.updated = << >> THEN << >> ELSE <<IsoFormat(b.updated[1])>>]

\* x["updated"] or ""
UpdatedKey(x) == IF x.updated = << >> THEN << >> ELSE x.updated[1]

\* (x["updated"] or "", x["name"]) of a is smaller than that of b
NewestKeyLess(a, b) ==
    \/ StrLess(UpdatedKey(a), UpdatedKey(b))
    \/ (UpdatedKey(a) = UpdatedKey(b) /\ StrLess(a.name, b.name))

\* files.sort(key=lambda x: x["name"])
SortByName(files) ==
    StableSort(files, [i \in 1..Len(files) |-> [j \in 1..Len(files) |->
                          StrLess(files[i].name, files[j].name)]])

\* SortNewestFirst without reverse=True.
SortOldestFirst(files) ==
    StableSort(files, [i \in 1..Len(files) |-> [j \in 1..Len(files) |->
                          NewestKeyLess(files[i], files[j])]])

\* files.sort(key=lambda x: (x["updated"] or "", x["name"]), reverse=True)
SortNewestFirst(files) ==
    StableSort(files, [i \in 1..Len(files) |-> [j \in 1..Len(files) |->
                          NewestKeyLess(files[j], files[i])]])

\* Collapse keeping the last entry: files = [files[-1]].
CollapseToLast(files, latest_only) ==
    IF latest_only /\ files # << >> THEN <<files[Len(files)]>> ELSE files

\* if latest_only and files: files = [files[0]]
Collapse(files, latest_only) ==
    IF latest_only /\ files # << >> THEN <<files[1]>> ELSE files

\* The objects the loop keeps, in the order the provider yields them.
KeptOf(listed, contains) ==
    LET keep(b) == Kept(b, contains) IN SelectSeq(listed, keep)

\* The provider calls of a listing whose loop signs the objects of `kept`:
\* the list call, then one sign call per kept object, up to the failing one.
\* fail = 0: no call fails; fail = -1: the listing fails; fail = k >= 1: the
\* k-th sign call fails.
CallsOf(prefix, kept, fail) ==
    <<ListCall(prefix, fail # -1)>> \o
    [i \in 1..(IF fail = -1 THEN 0 ELSE IF fail = 0 THEN Len(kept) ELSE fail) |->
        SignCall(kept[i].name, i # fail)]

----------------------------------------------------------------------------
(* The handlers *)

\* DailyBody counting the entries it returns: "count": len(files[:limit]).
DailyBodyCountsReturned(date_str, files, limit) ==
    [mode  |-> "daily",
     date  |-> date_str,
     count |-> Len(Slice(files, limit)),
     files |-> Slice(files, limit)]

\* jsonify({"mode": "daily", "date": date_str, "count": len(files),
\*          "files": files[:limit]})
DailyBody(date_str, files, limit) ==
    [mode  |-> "daily",
     date  |-> date_str,
     count |-> Len(files),
     files |-> Slice(files, limit)]

\* jsonify({"mode": "prefix", "prefix": prefix, "count": len(files),
\*          "files": files[:limit]})
PrefixBody(prefix, files, limit) ==
    [mode   |-> "prefix",
     prefix |-> prefix,
     count  |-> Len(files),
     files  |-> Slice(files, limit)]

\* The ways the provider may fail while `kept` objects are signed.
FailPoints(kept) == (-1)..Len(kept)

\* list_daily, once the bucket is configured and limit is parsed: the
\* response and the provider calls when the provider yields `listed` and
\* fails at `fail`.
DailyRun(args, now, limit, listed, fail) ==
    LET kept  == KeptOf(listed, ContainsOf(args))
        files == SortByName([i \in 1..Len(kept) |-> DailyEntry(kept[i])])
    IN  [calls |-> CallsOf(Folder(args, now), kept, fail),
         resp  |-> IF fail # 0
                   THEN Unhandled("ProviderError")
                   ELSE Json(200, DailyBody(DateStr(args, now), files, limit))]

\* list_daily: every response it may give to args at time now, with the
\* provider calls it made
ListDailyOutcomes(args, now) ==
    IF ~BucketConfigured
    THEN { [calls |-> << >>, resp |-> Json(500, [error |-> BucketError])] }
    ELSE IF ~LimitOf(args).ok
    THEN { [calls |-> << >>, resp |-> Unhandled("ValueError")] }
    ELSE UNION { { DailyRun(args, now, LimitOf(args).val, listed, fail) :
                     fail \in FailPoints(KeptOf(listed, ContainsOf(args))) } :
                 listed \in Orders(ListBlobs(Folder(args, now))) }

\* list_by_prefix, once the bucket is configured and limit is parsed
PrefixRun(args, limit, listed, fail) ==
    LET prefix == Get(args, "prefix", DefaultCsvPrefix)
        kept   == KeptOf(listed, ContainsOf(args))
        sorted == SortNewestFirst([i \in 1..Len(kept) |-> PrefixEntry(kept[i])])
        files  == Collapse(sorted, LatestOnly(args))
    IN  [calls |-> CallsOf(prefix, kept, fail),
         resp  |-> IF fail # 0
                   THEN Unhandled("ProviderError")
                   ELSE Json(200, PrefixBody(prefix, files, limit))]

\* list_by_prefix: every response it may give to args, with the provider
\* calls it made
ListByPrefixOutcomes(args) ==
    IF ~BucketConfigured
    THEN { [calls |-> << >>, resp |-> Json(500, [error |-> BucketError])] }
    ELSE IF ~LimitOf(args).ok
    THEN { [calls |-> << >>, resp |-> Unhandled("ValueError")] }
    ELSE UNION { { PrefixRun(args, LimitOf(args).val, listed, fail) :
                     fail \in FailPoints(KeptOf(listed, ContainsOf(args))) } :
                 listed \in Orders(ListBlobs(Get(args, "prefix", DefaultCsvPrefix))) }

----------------------------------------------------------------------------
(* The state machine *)

Init ==
    /\ BUCKET \in { << >>, <<"b">> }
    /\ store \in Stores
    /\ utcnow \in Clock
    /\ req = NoReq
    /\ resp = NoResp
    /\ calls = << >>

Idle == resp = NoResp

\* GET /health
Health ==
    /\ Idle
    /\ req' = [route |-> "/health", args |-> << >>]
    /\ resp' = Json(200, [ok |-> TRUE])
    /\ calls' = << >>
    /\ UNCHANGED <<BUCKET, store, utcnow>>

\* GET /
Root ==
    /\ Idle
    /\ req' = [route |-> "/", args |-> << >>]
    /\ resp' = Json(200, [ok |-> TRUE, message |-> "Bluedata downloads endpoint",
                          tips |-> <<"/list_daily", "/list_by_prefix">>])
    /\ calls' = << >>
    /\ UNCHANGED <<BUCKET, store, utcnow>>

\* GET /list_daily
ListDaily ==
    /\ Idle
    /\ \E args \in DailyArgs :
         \E out \in ListDailyOutcomes(args, utcnow) :
            /\ req' = [route |-> "/list_daily", args |-> args]
            /\ resp' = out.resp
            /\ calls' = out.calls
    /\ UNCHANGED <<BUCKET, store, utcnow>>

\* GET /list_by_prefix
ListByPrefix ==
    /\ Idle
    /\ \E args \in ByPrefixArgs :
         \E out \in ListByPrefixOutcomes(args) :
            /\ req' = [route |-> "/list_by_prefix", args |-> args]
            /\ resp' = out.resp
            /\ calls' = out.calls
    /\ UNCHANGED <<BUCKET, store, utcnow>>

\* GET of a path no @app.get registers: Flask answers 404 and runs no
\* handler.
NotFound ==
    /\ Idle
    /\ \E route \in {"/list"} \ Routes :
         req' = [route |-> route, args |-> << >>]
    /\ resp' = [status |-> 404, kind |-> "notfound", exc |-> "", body |-> << >>]
    /\ calls' = << >>
    /\ UNCHANGED <<BUCKET, store, utcnow>>

\* The response is sent and the worker takes the next request.
NextRequest ==
    /\ ~Idle
    /\ req' = NoReq
    /\ resp' = NoResp
    /\ calls' = << >>
    /\ UNCHANGED <<BUCKET, store, utcnow>>

Next ==
    \/ Health
    \/ Root
    \/ ListDaily
    \/ ListByPrefix
    \/ NotFound
    \/ NextRequest

Spec == Init /\ [][Next]_vars

----------------------------------------------------------------------------
(* What the properties speak of: the request as it was sent, the bucket as *)
(* it is stored, and the response as it was given.                         *)

Answered == resp # NoResp

IsListing == req.route \in {"/list_daily", "/list_by_prefix"}

\* The handler answered with its JSON listing.
Succeeded == IsListing /\ resp.kind = "json" /\ resp.status = 200

\* The handler answered with a JSON error.
JsonError ==
    /\ resp.status = 500
    /\ resp.kind = "json"
    /\ "error" \in DOMAIN resp.body
    /\ resp.body.error # << >>

Files == resp.body.files

Supplied(k) == req.args[k] # Absent

Value(k) == req.args[k][1]

\* The prefix the request lists.
ReqPrefix ==
    IF req.route = "/list_daily"
    THEN Folder(req.args, utcnow)
    ELSE IF Supplied("prefix") THEN Value("prefix") ELSE DefaultCsvPrefix

\* The stored objects under the prefix that are no directory markers.
Candidates ==
    { b \in store : StartsWith(b.name, ReqPrefix) /\ b.name[Len(b.name)] # "/" }

\* The filter value in effect: the supplied one without its surrounding
\* whitespace.
Wanted == IF Supplied("contains") THEN Strip(Value("contains")) ELSE << >>

LastSegment(path) == SplitLast(path)

\* The candidates that pass the contains filter.
Matching ==
    { b \in Candidates : Wanted = << >> \/ Contains(Wanted, LastSegment(b.name)) }

MatchCount == Cardinality(Matching)

\* The limit of the request, as an integer.
LimitVal == IF Supplied("limit") THEN IntParse(Value("limit")).val ELSE 100

\* latest is set to 1, true or yes.
LatestSet ==
    /\ req.route = "/list_by_prefix"
    /\ Supplied("latest")
    /\ Strip(Value("latest")) \in { <<"1">>, <<"t", "r", "u", "e">>, <<"y", "e", "s">> }

\* The number of matching objects left after the latest collapse.
Collapsed == IF LatestSet /\ MatchCount > 0 THEN 1 ELSE MatchCount

\* The update stamp of a stored object and of a returned entry ("" when
\* there is none).
Stamp(b) == IF b.updated = << >> THEN << >> ELSE IsoFormat(b.updated[1])

EntryStamp(f) == IF f.updated = << >> THEN << >> ELSE f.updated[1]

\* (u1, n1) <= (u2, n2)
PairLeq(u1, n1, u2, n2) == StrLess(u1, u2) \/ (u1 = u2 /\ StrLeq(n1, n2))

\* t1 is no later than t2
TimeLeq(t1, t2) ==
    LET day(t) == (t.year * 12 + t.month) * 31 + t.day
        sec(t) == (t.hour * 60 + t.minute) * 60 + t.second
    IN  \/ day(t1) < day(t2)
        \/ day(t1) = day(t2) /\ sec(t1) < sec(t2)
        \/ day(t1) = day(t2) /\ sec(t1) = sec(t2) /\ t1.microsecond <= t2.microsecond

Returned(b) == \E i \in 1..Len(Files) : Files[i].path = b.name

SomeCallFailed == \E i \in 1..Len(calls) : ~calls[i].ok

----------------------------------------------------------------------------
(* Properties *)

C2_ProviderFailureStructured ==
    (IsListing /\ Answered /\ SomeCallFailed) => JsonError

\* C3, as stated: for any integer limit L the handler accepts and M matching
\* objects, files[] has at most L and at least min(L, M) entries.
C3_AnyLimit ==
    Succeeded
        => /\ Len(Files) <= LimitVal
           /\ Len(Files) >= (IF LimitVal <= MatchCount THEN LimitVal ELSE MatchCount)

\* C3, amended: with M the number of matching objects left after the latest
\* collapse, a limit L >= 0 returns at most L and at least min(L, M)
\* entries, and a limit L < 0 returns max(0, M + L) entries.
C3_LimitCaps ==
    Succeeded
        => IF LimitVal >= 0
           THEN /\ Len(Files) <= LimitVal
                /\ Len(Files) >= (IF LimitVal <= Collapsed THEN LimitVal ELSE Collapsed)
           ELSE Len(Files) = (IF Collapsed + LimitVal >= 0 THEN Collapsed + LimitVal ELSE 0)

C3_Witness ==
    /\ Succeeded
    /\ LimitVal = 2
    /\ MatchCount = 3
    /\ Len(Files) = 2

\* C4: a listing request whose limit is not a number, or whose date is not
\* a calendar date, is answered with a (possibly empty) listing, not with
\* an error.
C4_MalformedAccepted ==
    LET badLimit == /\ Supplied("limit")
                    /\ \A i \in 1..Len(Value("limit")) : ~IsDigit(Value("limit")[i])
        badDate  == /\ req.route = "/list_daily"
                    /\ Supplied("date")
                    /\ Len(Value("date")) # 10
    IN  (IsListing /\ Answered /\ BUCKET # << >> /\ ~SomeCallFailed /\ (badLimit \/ badDate))
            => Succeeded

\* C5: the entries of /list_daily are non-decreasing by name, those of
\* /list_by_prefix non-increasing by (updated or "", name); the entries are
\* distinct matching objects, and no matching object left out sorts before a
\* returned one: the entries are a prefix of the sorted match list.
C5_SortedPrefix ==
    Succeeded
        => /\ \A i, j \in 1..Len(Files) :
                i < j =>
                    /\ Files[i].path # Files[j].path
                    /\ IF req.route = "/list_daily"
                       THEN StrLeq(Files[i].name, Files[j].name)
                       ELSE PairLeq(EntryStamp(Files[j]), Files[j].name,
                                    EntryStamp(Files[i]), Files[i].name)
           /\ \A i \in 1..Len(Files) : \E b \in Matching : b.name = Files[i].path
           /\ \A b \in Matching : \A i \in 1..Len(Files) :
                ~Returned(b) =>
                    IF req.route = "/list_daily"
                    THEN StrLeq(Files[i].name, LastSegment(b.name))
                    ELSE PairLeq(Stamp(b), LastSegment(b.name),
                                 EntryStamp(Files[i]), Files[i].name)

C5_Witness ==
    /\ Succeeded
    /\ req.route = "/list_by_prefix"
    /\ ~LatestSet
    /\ MatchCount = 3
    /\ Len(Files) = 2
    /\ EntryStamp(Files[1]) # EntryStamp(Files[2])

\* C6: /list_by_prefix with latest set returns at most one entry, and the
\* one returned is the first of the matching objects in descending
\* (updated, name) order, whose update time is the latest one.
C6_LatestFirst ==
    (Succeeded /\ LatestSet)
        => /\ Len(Files) <= 1
           /\ Len(Files) = 1 =>
                \E b \in Matching :
                    /\ b.name = Files[1].path
                    /\ \A m \in Matching :
                        /\ PairLeq(Stamp(m), LastSegment(m.name),
                                   Stamp(b), LastSegment(b.name))
                        /\ m.updated # << >> =>
                            /\ b.updated # << >>
                            /\ TimeLeq(m.updated[1], b.updated[1])

C6_Witness ==
    /\ Succeeded
    /\ LatestSet
    /\ Len(Files) = 1
    /\ \E m \in Matching :
          /\ m.updated # << >>
          /\ Stamp(m) # EntryStamp(Files[1])

\* C7, as stated: when contains is supplied every returned name contains the
\* supplied value, and when it is omitted every object under the prefix that
\* is no directory marker is counted.
C7_ContainsSupplied ==
    Succeeded
        => IF Supplied("contains")
           THEN \A i \in 1..Len(Files) : Contains(Value("contains"), Files[i].name)
           ELSE resp.body.count =
                    (IF LatestSet /\ Candidates # {} THEN 1 ELSE Cardinality(Candidates))

\* C7, amended: when contains is supplied every returned name contains the
\* supplied value with its leading and trailing whitespace stripped; when it
\* is omitted every object under the prefix that is no directory marker is
\* counted.
C7_ContainsStripped ==
    Succeeded
        => IF Supplied("contains")
           THEN \A i \in 1..Len(Files) : Contains(Strip(Value("contains")), Files[i].name)
           ELSE resp.body.count =
                    (IF LatestSet /\ Candidates # {} THEN 1 ELSE Cardinality(Candidates))

C7_Witness ==
    /\ Succeeded
    /\ Supplied("contains")
    /\ Wanted # << >>
    /\ Wanted # Value("contains")
    /\ Len(Files) >= 1
    /\ MatchCount < Cardinality(Candidates)

\* C8: every returned entry's path does not end with "/", and its name is
\* the last "/"-delimited segment of its path: not empty and without "/".
C8_WellFormed ==
    Succeeded
        => \A i \in 1..Len(Files) :
             LET name == Files[i].name
                 path == Files[i].path
             IN  /\ path[Len(path)] # "/"
                 /\ name # << >>
                 /\ \A k \in 1..Len(name) : name[k] # "/"
                 /\ EndsWith(path, name)
                 /\ Len(path) > Len(name) => path[Len(path) - Len(name)] = "/"

C8_Witness ==
    /\ Succeeded
    /\ \E b \in store : StartsWith(b.name, ReqPrefix) /\ EndsWith(b.name, <<"/">>)
    /\ \E i \in 1..Len(Files) : Len(Files[i].path) > Len(ReqPrefix) + Len(Files[i].name)

\* C9: a sign call is made only for an object that appears in the
\* response's files[].
C9_SignOnlyReturned ==
    Succeeded
        => \A i \in 1..Len(calls) :
             calls[i].op = "sign" => \E j \in 1..Len(Files) : Files[j].path = calls[i].arg

\* C10: count is the number of matching objects left after the latest
\* collapse; it is at least the number of entries when limit >= 0, and
\* equal to it when limit is at least the count.
C10_CountBeforeTruncation ==
    Succeeded
        => /\ resp.body.count = Collapsed
           /\ LimitVal >= 0 => resp.body.count >= Len(Files)
           /\ LimitVal >= resp.body.count => Len(Files) = resp.body.count

C10_Witness ==
    /\ Succeeded
    /\ req.route = "/list_daily"
    /\ LimitVal = 2
    /\ resp.body.count = 3
    /\ Len(Files) = 2

=============================================================================
